---- MODULE Spec2Model ----
(***************************************************************************)
(* Download job orchestrator of yt-xdownloader (backend server).           *)
(*                                                                         *)
(* The model follows the server in src/unnamed/part_001: the job registry  *)
(* activeDownloads, the POST /api/video/download handler with its stdout   *)
(* 'data', stderr 'data' and 'close' callbacks, the ffmpeg 'close'         *)
(* callback, the progress and file endpoints, the catalog of               *)
(* POST /api/video/info, cleanupOldFiles and the script src/cleanup.sh.    *)
(* Spec is the server with one download; SpecTwo, SpecCatalog, SpecHeader  *)
(* and SpecSweep put the same handlers under two downloads, catalog        *)
(* requests, title-named files and the hourly schedule.                    *)
(* The runtime is a single-threaded event loop, so every handler and every *)
(* callback is one atomic action.  The extraction engine (yt-dlp), the     *)
(* transcoder (ffmpeg), the clients and the clock are the environment:     *)
(* their inputs are drawn from small sets.                                 *)
(*                                                                         *)
(* A file name is a sequence of tokens, the last one being the extension   *)
(* with its dot (<<"v", ".webm">> is "v.webm").  The empty sequence stands *)
(* for JavaScript's undefined.                                             *)
(***************************************************************************)
EXTENDS Integers, Sequences, FiniteSets, TLC

VARIABLES activeDownloads, audioOnly, formatArg, ytdlp, ffmpeg,
          downloadedFile, downloadsDir, launch, uuids, resp, stderrLog,
          \* the browser client
          progressIntervalRef, intervals, downloadPosts, progressPolls,
          fileTimeouts, clearTimeouts, fileRequests, observed

\* the client's variables
client == <<progressIntervalRef, intervals, downloadPosts, progressPolls,
            fileTimeouts, clearTimeouts, fileRequests, observed>>

vars == <<activeDownloads, audioOnly, formatArg, ytdlp, ffmpeg,
          downloadedFile, downloadsDir, launch, uuids, resp, stderrLog,
          client>>

(***************************************************************************)
(* Bounds of the model.                                                    *)
(***************************************************************************)
\* largest byte count a progress record carries (0 stands for a missing,
\* null or zero field: all are falsy in the handler's test)
MaxBytes == 2
\* largest number of lines in one stdout 'data' chunk
MaxLines == 1
\* largest number of files the engine leaves in a job's directory
MaxEngineFiles == 1
\* hours the clock advances in one Tick
TickHours == 24
\* largest number of formats in the engine's metadata
MaxFormats == 3
\* largest number of characters before the extension of a title-made name
MaxNameLen == 2
\* largest age, in hours, of a directory an earlier run of the server left
MaxLeftoverHours == 49

(***************************************************************************)
(* Program constants.                                                      *)
(***************************************************************************)
FILE_MAX_AGE_HOURS == 24
CLEANUP_INTERVAL_HOURS == 1
\* MAX_AGE of cleanup.sh, in days
MAX_AGE == 1
\* exit code of a child that was killed by a signal (code === null)
NullCode == -1

\* ids randomUUID can return; uuids holds those it has not returned yet
JobIds == {"j1", "j2"}
\* ids a request can name
Ids == JobIds

Undefined == <<>>
ExitCodes == {0, 1, NullCode}
Etas == {"null", "7"}
StderrTexts == {"ERROR: unable to download /srv/downloads/j1/v.webm"}

\* names the engine can write into a job's directory
EngineFiles == {<<"v", ".mp4">>, <<"v", ".webm">>, <<"v", ".mp3">>}
\* file names a 'finished' record can carry (the engine reports full paths)
FinishedNames == {<<"/", "v", ".webm">>}

(***************************************************************************)
(* Pure helpers of the handlers.                                           *)
(***************************************************************************)
Last(s) == s[Len(s)]

\* String.prototype.toLowerCase on an extension token (the /i flag)
Lower(tok) ==
  CASE tok = ".WEBM" -> ".webm"
    [] tok = ".MP4" -> ".mp4"
    [] OTHER -> tok

\* /\.(mp4|webm|mkv|m4a|opus|wav)$/i.test(f) of the 'close' handler
CloseRegexExts == {".mp4", ".webm", ".mkv", ".m4a", ".opus", ".wav"}
MatchesCloseRegex(f) == Len(f) > 0 /\ Lower(Last(f)) \in CloseRegexExts

\* the endsWith chain of the file endpoint
ServedExts == {".mp4", ".webm", ".mkv", ".m4a", ".opus", ".wav", ".mp3", ".aac"}
IsMediaFile(f) == Len(f) > 0 /\ Last(f) \in ServedExts

\* downloadedFile.endsWith('.webm')
EndsWithWebm(f) == Len(f) > 0 /\ Last(f) = ".webm"

\* downloadedFile.replace('.webm', '.mp4'): the first occurrence only
RECURSIVE ReplaceFirstWebm(_)
ReplaceFirstWebm(f) ==
  IF f = <<>> THEN <<>>
  ELSE IF Head(f) = ".webm" THEN <<".mp4">> \o Tail(f)
  ELSE <<Head(f)>> \o ReplaceFirstWebm(Tail(f))

\* Math.round((downloaded_bytes / total_bytes) * 100), or 0 when one of the
\* two is falsy.  Math.round rounds halves up; with the byte counts of the
\* model no quotient is within a rounding error of a half.
Percent(d, t) ==
  IF d # 0 /\ t # 0 THEN (200 * d + t) \div (2 * t) ELSE 0

(***************************************************************************)
(* Values of the state.                                                    *)
(***************************************************************************)
\* the record activeDownloads.set stores (lines 305-308); fileName, error
\* and eta are absent
NewDownload ==
  [status |-> "downloading", progress |-> 0, fileName |-> Undefined,
   error |-> "", eta |-> "undefined"]

NotSpawned == [state |-> "none", code |-> NullCode]
Running == [state |-> "running", code |-> NullCode]
Closed(code) == [state |-> "closed", code |-> code]

NoDir == [exists |-> FALSE, files |-> {}, age |-> 0]
FreshDir(files) == [exists |-> TRUE, files |-> files, age |-> 0]

\* one line of the engine's stdout
DownloadingLines ==
  [kind : {"json"}, status : {"downloading"}, downloaded_bytes : 0..MaxBytes,
   total_bytes : 0..MaxBytes, eta : Etas, filename : {Undefined}]
FinishedLines ==
  [kind : {"json"}, status : {"finished"}, downloaded_bytes : {0},
   total_bytes : {0}, eta : {"null"}, filename : FinishedNames]
OtherLines ==
  [kind : {"json", "text", "badjson"}, status : {"error"},
   downloaded_bytes : {0}, total_bytes : {0}, eta : {"null"},
   filename : {Undefined}]
Lines == DownloadingLines \cup FinishedLines \cup OtherLines
Chunks == UNION {[1..n -> Lines] : n \in 1..MaxLines}

\* the orders readdirSync can list a directory in
Listings(files) ==
  {l \in [1..Cardinality(files) -> files] :
     \A i, k \in 1..Cardinality(files) : i # k => l[i] # l[k]}

(***************************************************************************)
(* Responses.  resp is the answer of the request handled by the last       *)
(* step; a callback or an environment step leaves no answer.               *)
(***************************************************************************)
NoResp ==
  [op |-> "none", id |-> "", code |-> 0, error |-> "", status |-> "",
   progress |-> 0, eta |-> "", fileName |-> Undefined, served |-> Undefined,
   formats |-> << >>, fallback |-> << >>, extended |-> << >>,
   listed |-> << >>, contentType |-> "", read |-> ""]
Reply(op, id, code, error) ==
  [NoResp EXCEPT !.op = op, !.id = id, !.code = code, !.error = error]

\* the page after it has loaded: no interval, no request, no timer
ClientIdle ==
  /\ progressIntervalRef = "null"
  /\ intervals = {}
  /\ downloadPosts = {}
  /\ progressPolls = [j \in JobIds |-> 0]
  /\ fileTimeouts = [j \in JobIds |-> 0]
  /\ clearTimeouts = 0
  /\ fileRequests = [j \in JobIds |-> 0]
  /\ observed = [j \in JobIds |-> "none"]

Init ==
  /\ activeDownloads = << >>
  /\ audioOnly = [j \in JobIds |-> FALSE]
  /\ formatArg = [j \in JobIds |-> << >>]
  /\ ClientIdle
  /\ ytdlp = [j \in JobIds |-> NotSpawned]
  /\ ffmpeg = [j \in JobIds |-> NotSpawned]
  /\ downloadedFile = [j \in JobIds |-> Undefined]
  /\ downloadsDir = [j \in JobIds |-> NoDir]
  /\ launch = [j \in JobIds |-> "none"]
  /\ uuids = {"j1"}
  /\ resp = NoResp
  /\ stderrLog = ""

Registered == DOMAIN activeDownloads

\* activeDownloads.set(downloadId, {...})
MapSet(map, id, rec) ==
  [k \in (DOMAIN map) \cup {id} |-> IF k = id THEN rec ELSE map[k]]

\* one record object that the callbacks of every job write
SetDownloadShared(map, id, rec) == [k \in DOMAIN map |-> rec]

\* A callback of job id writes its record through `download`, the const the
\* request's handler bound to activeDownloads.get(downloadId): the object
\* registered under id and no other.
SetDownload(map, id, rec) == [map EXCEPT ![id] = rec]

(***************************************************************************)
(* POST /api/video/download                                                *)
(***************************************************************************)
\* a start that leaves the registration to a later callback
RegisterLater(map, id) == map

\* activeDownloads.set(downloadId, {status: 'downloading', progress: 0})
Register(map, id) == MapSet(map, id, NewDownload)

(***************************************************************************)
(* The -f argument of the engine.  A format id is a sequence of            *)
(* characters; an alternative of the selection expression names what to    *)
(* take (a format id, bestvideo, best or bestaudio), an upper bound on the *)
(* height (0: none) and the audio to merge ("": none).                     *)
(***************************************************************************)
\* format ids of catalog entries a request can carry
FormatIds ==
  {<<"1", "3", "7">>, <<"2", "2">>, <<"3", "1", "3">>, <<"1", "8">>,
   <<"1", "3", "5">>, <<"h", "l", "s", "-", "1", "0", "8", "0">>}
DefaultFormatId == <<"1", "3", "7">>

\* String.prototype.includes
Includes(str, sub) ==
  \E i \in 1..(Len(str) - Len(sub) + 1) : SubSeq(str, i, i + Len(sub) - 1) = sub

\* the height of the [height<=...] filters
HeightBound(format_id) ==
  IF Includes(format_id, <<"1", "0", "8", "0">>) THEN 1080
  ELSE IF Includes(format_id, <<"7", "2", "0">>) THEN 720
  ELSE IF Includes(format_id, <<"4", "8", "0">>) THEN 480
  ELSE 360

Alternative(take, height, audio) ==
  [take |-> take, height |-> height, audio |-> audio]

\* the four template strings, each as the '/'-separated alternatives it holds
formatStrategies(format_id) ==
  <<(<<Alternative(format_id, 0, "bestaudio[ext=m4a]"),
       Alternative(<<"best">>, 0, "")>>),
    (<<Alternative(format_id, 0, "bestaudio")>>),
    (<<Alternative(<<"bestvideo">>, HeightBound(format_id), "bestaudio")>>),
    (<<Alternative(<<"best">>, HeightBound(format_id), "")>>)>>

\* formatStrategies.join('/'), as the engine reads it
formatString(format_id) ==
  formatStrategies(format_id)[1] \o formatStrategies(format_id)[2]
    \o formatStrategies(format_id)[3] \o formatStrategies(format_id)[4]

\* the value that follows '-f' in ytdlpArgs
FormatArg(ao, format_id) ==
  IF ao THEN <<Alternative(<<"bestaudio">>, 0, "")>> ELSE formatString(format_id)

StartVariant(id, ao, format_id, mkdirOk, spawnOk) ==
  /\ id \in uuids
  /\ uuids' = uuids \ {id}
  /\ audioOnly' = [audioOnly EXCEPT ![id] = ao]
  /\ IF ~mkdirOk
       THEN \* mkdirSync throws: the handler ends before the registration
            /\ launch' = [launch EXCEPT ![id] = "mkdirFailed"]
            /\ resp' = Reply("download", id, 500, "Internal Server Error")
            /\ UNCHANGED <<activeDownloads, formatArg, ytdlp, downloadsDir>>
       ELSE /\ downloadsDir' = [downloadsDir EXCEPT ![id] = FreshDir({})]
            /\ formatArg' = [formatArg EXCEPT ![id] = FormatArg(ao, format_id)]
            /\ IF ~spawnOk
                 THEN \* spawn throws: the handler ends after the registration
                      /\ activeDownloads' = Register(activeDownloads, id)
                      /\ launch' = [launch EXCEPT ![id] = "spawnFailed"]
                      /\ resp' = Reply("download", id, 500, "Internal Server Error")
                      /\ UNCHANGED ytdlp
                 ELSE /\ activeDownloads' = Register(activeDownloads, id)
                      /\ ytdlp' = [ytdlp EXCEPT ![id] = Running]
                      /\ launch' = [launch EXCEPT ![id] = "started"]
                      /\ resp' = [Reply("download", id, 200, "") EXCEPT
                                    !.status = "started"]
  /\ UNCHANGED <<client, ffmpeg, downloadedFile, stderrLog>>

\* a start whose request carries the format id 137
StartJob(id, ao, mkdirOk, spawnOk) ==
  StartVariant(id, ao, DefaultFormatId, mkdirOk, spawnOk)

(***************************************************************************)
(* ytdlp.stdout.on('data'), ytdlp.stderr.on('data')                        *)
(***************************************************************************)
\* a loop body that takes a record with any other status tag as a failure
ApplyLineOtherIsError(download, line) ==
  IF line.kind # "json" THEN download
  ELSE IF line.status = "downloading"
    THEN [download EXCEPT
            !.progress = Percent(line.downloaded_bytes, line.total_bytes),
            !.eta = line.eta]
  ELSE IF line.status = "finished"
    THEN [download EXCEPT !.status = "completed", !.fileName = line.filename]
  ELSE [download EXCEPT !.status = "error"]

\* the body of the loop over the lines of a chunk
ApplyLine(download, line) ==
  IF line.kind # "json" THEN download   \* no leading '{', or JSON.parse throws
  ELSE IF line.status = "downloading"
    THEN [download EXCEPT
            !.progress = Percent(line.downloaded_bytes, line.total_bytes),
            !.eta = line.eta]
  ELSE IF line.status = "finished"
    THEN [download EXCEPT !.status = "completed", !.fileName = line.filename]
  ELSE download

RECURSIVE ApplyLines(_, _)
ApplyLines(download, chunk) ==
  IF chunk = << >> THEN download
  ELSE ApplyLines(ApplyLine(download, Head(chunk)), Tail(chunk))

\* a handler on 'exit' instead of 'close': output can still arrive after it
StdoutOpenAfterExit(proc) == proc.state # "none"

\* stdout is delivered only while the child has not closed: the exit handler
\* listens on 'close', which comes after the stdio streams have ended
StdoutOpen(proc) == proc.state = "running"

StdoutData(id, chunk) ==
  /\ StdoutOpen(ytdlp[id])
  /\ activeDownloads' =
       SetDownload(activeDownloads, id, ApplyLines(activeDownloads[id], chunk))
  /\ resp' = NoResp
  /\ UNCHANGED <<client, audioOnly, formatArg, ytdlp, ffmpeg, downloadedFile, downloadsDir,
                 launch, uuids, stderrLog>>

\* console.error('yt-dlp stderr:', ...) and nothing else
StderrData(id, text) ==
  /\ ytdlp[id].state = "running"
  /\ stderrLog' = text
  /\ resp' = NoResp
  /\ UNCHANGED <<activeDownloads, client, audioOnly, formatArg, ytdlp, ffmpeg, downloadedFile,
                 downloadsDir, launch, uuids>>

\* the engine writes a file into the job's directory (it creates the
\* directory of its output template when that is missing)
EngineWrite(id, f) ==
  /\ ytdlp[id].state = "running"
  /\ f \notin downloadsDir[id].files
  /\ Cardinality(downloadsDir[id].files) < MaxEngineFiles
  /\ downloadsDir' =
       [downloadsDir EXCEPT ![id] = FreshDir(downloadsDir[id].files \cup {f})]
  /\ resp' = NoResp
  /\ UNCHANGED <<activeDownloads, client, audioOnly, formatArg, ytdlp, ffmpeg, downloadedFile,
                 launch, uuids, stderrLog>>

(***************************************************************************)
(* ytdlp.on('close')                                                       *)
(***************************************************************************)
\* files.find(...) over a listing: the first match, or undefined
FindDownloaded(listing) ==
  IF \E i \in 1..Len(listing) : MatchesCloseRegex(listing[i])
    THEN listing[CHOOSE i \in 1..Len(listing) :
                   /\ MatchesCloseRegex(listing[i])
                   /\ \A k \in 1..(i - 1) : ~MatchesCloseRegex(listing[k])]
    ELSE Undefined

\* the test without its audioOnly part
NeedsConversionAnyJob(f, ao) == EndsWithWebm(f)

\* downloadedFile.endsWith('.webm') && !audioOnly
NeedsConversion(f, ao) == EndsWithWebm(f) /\ ~ao

\* a detail that echoes the engine's error output
ErrorDetailEchoed(stderrText) == stderrText

\* download.error of the non-zero branch
ErrorDetail(stderrText) == "Download failed"

\* The handler.  dirExists/listing are what readdirSync finds, ao is the
\* job's audioOnly, spawnOk tells whether spawn('ffmpeg') returns.  The
\* result is the job record, the located file and whether ffmpeg runs.
CloseEffect(download, code, dirExists, listing, ao, spawnOk, stderrText) ==
  IF code = 0
    THEN LET done == [download EXCEPT !.status = "completed", !.progress = 100]
             f == IF dirExists THEN FindDownloaded(listing) ELSE Undefined
         IN  IF f = Undefined
               THEN \* readdirSync threw, or no file matched
                    [download |-> done, located |-> Undefined, convert |-> FALSE]
             ELSE IF NeedsConversion(f, ao)
               THEN \* a throwing spawn is caught by the outer try
                    [download |-> [done EXCEPT !.status = "converting"],
                     located |-> f, convert |-> spawnOk]
             ELSE [download |-> [done EXCEPT !.fileName = f],
                   located |-> f, convert |-> FALSE]
    ELSE [download |-> [download EXCEPT !.status = "error",
                                        !.error = ErrorDetail(stderrText)],
          located |-> Undefined, convert |-> FALSE]

YtdlpClose(id, code, spawnOk) ==
  /\ ytdlp[id].state = "running"
  /\ \E listing \in Listings(downloadsDir[id].files) :
      LET eff == CloseEffect(activeDownloads[id], code, downloadsDir[id].exists,
                             listing, audioOnly[id], spawnOk, stderrLog)
      IN  /\ activeDownloads' = SetDownload(activeDownloads, id, eff.download)
          /\ downloadedFile' = [downloadedFile EXCEPT ![id] = eff.located]
          /\ ffmpeg' = [ffmpeg EXCEPT ![id] =
                          IF eff.convert THEN Running ELSE ffmpeg[id]]
  /\ ytdlp' = [ytdlp EXCEPT ![id] = Closed(code)]
  /\ resp' = NoResp
  /\ UNCHANGED <<client, audioOnly, formatArg, downloadsDir, launch, uuids, stderrLog>>

(***************************************************************************)
(* ffmpeg and ffmpeg.on('close')                                           *)
(***************************************************************************)
mp4FileName(id) == ReplaceFirstWebm(downloadedFile[id])

\* the transcoder writes its output file next to the original
FfmpegWrite(id) ==
  /\ ffmpeg[id].state = "running"
  /\ downloadsDir[id].exists
  /\ mp4FileName(id) \notin downloadsDir[id].files
  /\ downloadsDir' =
       [downloadsDir EXCEPT
          ![id] = FreshDir(downloadsDir[id].files \cup {mp4FileName(id)})]
  /\ resp' = NoResp
  /\ UNCHANGED <<activeDownloads, client, audioOnly, formatArg, ytdlp, ffmpeg, downloadedFile,
                 launch, uuids, stderrLog>>

\* a handler that reports a failed conversion as a failed job
FfmpegCloseEffectFailing(download, ffmpegCode, original, converted, removed) ==
  IF ffmpegCode = 0 /\ removed
    THEN [download EXCEPT !.fileName = converted, !.status = "completed"]
  ELSE IF ffmpegCode = 0
    THEN [download EXCEPT !.fileName = original, !.status = "completed"]
  ELSE [download EXCEPT !.status = "error", !.error = "Conversion failed"]

\* a handler that names the converted file whatever the transcoder's exit code
FfmpegCloseEffectRenaming(download, ffmpegCode, original, converted, removed) ==
  [download EXCEPT !.fileName = converted, !.status = "completed"]

\* The handler.  removed tells whether rmSync(filePath) returned; when it
\* throws, the catch keeps the original name.
FfmpegCloseEffect(download, ffmpegCode, original, converted, removed) ==
  IF ffmpegCode = 0 /\ removed
    THEN [download EXCEPT !.fileName = converted, !.status = "completed"]
    ELSE [download EXCEPT !.fileName = original, !.status = "completed"]

\* Exit code 0 means the output file was written (unless the directory was
\* removed under the transcoder).  rmSync throws when the original is gone,
\* and rmOk = FALSE is any other failure of it (EPERM, EBUSY, ...).
FfmpegClose(id, ffmpegCode, rmOk) ==
  /\ ffmpeg[id].state = "running"
  /\ ffmpegCode = 0 =>
       \/ ~downloadsDir[id].exists
       \/ mp4FileName(id) \in downloadsDir[id].files
  /\ LET removed == /\ ffmpegCode = 0
                    /\ rmOk
                    /\ downloadsDir[id].exists
                    /\ downloadedFile[id] \in downloadsDir[id].files
     IN  /\ activeDownloads' =
               SetDownload(activeDownloads, id,
                           FfmpegCloseEffect(activeDownloads[id], ffmpegCode,
                                             downloadedFile[id], mp4FileName(id),
                                             removed))
         /\ downloadsDir' =
               IF removed
                 THEN [downloadsDir EXCEPT
                         ![id] = FreshDir(downloadsDir[id].files
                                            \ {downloadedFile[id]})]
                 ELSE downloadsDir
  /\ ffmpeg' = [ffmpeg EXCEPT ![id] = Closed(ffmpegCode)]
  /\ resp' = NoResp
  /\ UNCHANGED <<client, audioOnly, formatArg, ytdlp, downloadedFile, launch, uuids, stderrLog>>

(***************************************************************************)
(* GET /api/video/progress/:downloadId                                     *)
(***************************************************************************)
ProgressReply(map, id) ==
  IF id \notin DOMAIN map
    THEN Reply("progress", id, 404, "Download not found")
    ELSE [Reply("progress", id, 200, "") EXCEPT
            !.status = map[id].status, !.progress = map[id].progress,
            !.eta = map[id].eta, !.fileName = map[id].fileName]

GetProgress(id) ==
  /\ resp' = ProgressReply(activeDownloads, id)
  /\ UNCHANGED <<activeDownloads, client, audioOnly, formatArg, ytdlp, ffmpeg, downloadedFile,
                 downloadsDir, launch, uuids, stderrLog>>

(***************************************************************************)
(* GET /api/video/file/:downloadId                                         *)
(***************************************************************************)
NotReady == Reply("file", "", 404, "Download not ready")
NotFound == Reply("file", "", 404, "File not found")
\* readdirSync throws and nothing catches it: the framework answers 500
Uncaught == Reply("file", "", 500, "Internal Server Error")

\* files.find(...) of the endpoint over a listing
FindMedia(listing) ==
  IF \E i \in 1..Len(listing) : IsMediaFile(listing[i])
    THEN listing[CHOOSE i \in 1..Len(listing) :
                   /\ IsMediaFile(listing[i])
                   /\ \A k \in 1..(i - 1) : ~IsMediaFile(listing[k])]
    ELSE Undefined

(***************************************************************************)
(* The Content-Disposition header.  A character of a file name is a token: *)
(* "a" and "v" are ASCII letters, "U+00A0" is the no-break space, "U+65E5" *)
(* a character of three UTF-8 bytes and "U+1F600" one of four, which a     *)
(* JavaScript string holds as two code units.  An extension token is a dot *)
(* followed by ASCII letters and digits.                                   *)
(***************************************************************************)
NameChars == {"a", " ", "%", "'", "U+00A0", "U+65E5", "U+1F600"}
ExtTokens == ServedExts

\* \w without the u flag: [A-Za-z0-9_]
IsWordCharUnicode(c) == c \in {"a", "v", "_", "U+65E5"}
IsWordChar(c) == c \in {"a", "v", "_"}
\* \s: the ASCII white space and the Unicode space separators
IsSpace(c) == c \in {" ", "U+00A0"}
\* UTF-16 code units of a character
CodeUnits(c) == IF c = "U+1F600" THEN 2 ELSE 1

\* .replace(/[^\w\s.-]/g, '_'): one underscore per code unit
RECURSIVE ReplaceProblematic(_)
ReplaceProblematic(name) ==
  IF name = << >> THEN << >>
  ELSE LET c == Head(name)
       IN  (IF IsWordChar(c) \/ IsSpace(c) \/ c \in {".", "-"} \/ c \in ExtTokens
              THEN <<c>>
              ELSE [i \in 1..CodeUnits(c) |-> "_"])
             \o ReplaceProblematic(Tail(name))

\* .replace(/\s+/g, '_')
RECURSIVE ReplaceSpaces(_)
ReplaceSpaces(name) ==
  IF name = << >> THEN << >>
  ELSE IF ~IsSpace(Head(name)) THEN <<Head(name)>> \o ReplaceSpaces(Tail(name))
  ELSE IF Len(name) > 1 /\ IsSpace(name[2]) THEN ReplaceSpaces(Tail(name))
  ELSE <<"_">> \o ReplaceSpaces(Tail(name))

\* .replace(/_+/g, '_')
RECURSIVE CollapseUnderscores(_)
CollapseUnderscores(name) ==
  IF name = << >> THEN << >>
  ELSE IF Head(name) = "_" /\ Len(name) > 1 /\ name[2] = "_"
    THEN CollapseUnderscores(Tail(name))
  ELSE <<Head(name)>> \o CollapseUnderscores(Tail(name))

\* String.prototype.trim
RECURSIVE Trim(_)
Trim(name) ==
  IF name = << >> THEN << >>
  ELSE IF IsSpace(Head(name)) THEN Trim(Tail(name))
  ELSE IF IsSpace(name[Len(name)]) THEN Trim(SubSeq(name, 1, Len(name) - 1))
  ELSE name

sanitizeFilename(name) ==
  Trim(CollapseUnderscores(ReplaceSpaces(ReplaceProblematic(name))))

\* the UTF-8 bytes of a character encodeURIComponent escapes
Utf8(c) ==
  CASE c = " " -> <<32>>
    [] c = "%" -> <<37>>
    [] c = "/" -> <<47>>
    [] c = "U+00A0" -> <<194, 160>>
    [] c = "U+65E5" -> <<230, 151, 165>>
    [] c = "U+1F600" -> <<240, 159, 152, 128>>
Escaped == {" ", "%", "/", "U+00A0", "U+65E5", "U+1F600"}

HexDigits ==
  <<"0", "1", "2", "3", "4", "5", "6", "7", "8", "9", "A", "B", "C", "D", "E", "F">>
HexPair(byte) == <<"%", HexDigits[(byte \div 16) + 1], HexDigits[(byte % 16) + 1]>>
HexValue(digit) == CHOOSE n \in 0..15 : HexDigits[n + 1] = digit

RECURSIVE EscapeBytes(_)
EscapeBytes(bytes) ==
  IF bytes = << >> THEN << >>
  ELSE HexPair(Head(bytes)) \o EscapeBytes(Tail(bytes))

\* encodeURIComponent: letters, digits and - _ . ! ~ * ' ( ) stay, every
\* other character becomes the escapes of its UTF-8 bytes
RECURSIVE encodeURIComponent(_)
encodeURIComponent(name) ==
  IF name = << >> THEN << >>
  ELSE (IF Head(name) \in Escaped THEN EscapeBytes(Utf8(Head(name)))
        ELSE <<Head(name)>>)
         \o encodeURIComponent(Tail(name))

\* Percent-decoding as a receiver does it: the escapes become bytes, and the
\* bytes are read as UTF-8.  An item is a literal character or a byte.
RECURSIVE Unescape(_)
Unescape(text) ==
  IF text = << >> THEN << >>
  ELSE IF Head(text) = "%" /\ Len(text) >= 3
    THEN <<[byte |-> 16 * HexValue(text[2]) + HexValue(text[3]), char |-> ""]>>
           \o Unescape(SubSeq(text, 4, Len(text)))
  ELSE <<[byte |-> -1, char |-> Head(text)]>> \o Unescape(Tail(text))

StartsWithBytes(items, bytes) ==
  /\ Len(items) >= Len(bytes)
  /\ \A i \in 1..Len(bytes) : items[i].byte = bytes[i]

RECURSIVE Utf8Decode(_)
Utf8Decode(items) ==
  IF items = << >> THEN << >>
  ELSE IF Head(items).byte = -1
    THEN <<Head(items).char>> \o Utf8Decode(Tail(items))
  ELSE IF \E c \in Escaped : StartsWithBytes(items, Utf8(c))
    THEN LET c == CHOOSE ch \in Escaped : StartsWithBytes(items, Utf8(ch))
         IN  <<c>> \o Utf8Decode(SubSeq(items, Len(Utf8(c)) + 1, Len(items)))
  ELSE <<"U+FFFD">> \o Utf8Decode(Tail(items))

PercentDecode(text) == Utf8Decode(Unescape(text))

\* a handler that always announces video/mp4
getContentTypeFixed(filename) == "video/mp4"

\* filename.split('.').pop()?.toLowerCase() and the switch over it
getContentType(filename) ==
  LET ext == Lower(Last(filename))
  IN  CASE ext = ".mp4" -> "video/mp4"
        [] ext = ".webm" -> "video/webm"
        [] ext = ".mkv" -> "video/x-matroska"
        [] ext = ".m4a" -> "audio/mp4"
        [] ext = ".mp3" -> "audio/mpeg"
        [] ext = ".opus" -> "audio/opus"
        [] ext = ".wav" -> "audio/wav"
        [] ext = ".aac" -> "audio/aac"
        [] OTHER -> "application/octet-stream"

\* ids a request can carry that are no job id: the decoded route parameter
\* can hold path separators and '..'
PathIds == {"j2/../j1", ".."}
RequestIds == JobIds \cup PathIds

\* join(downloadsDir, downloadId), as the name of the directory it denotes
\* below the downloads root ("outside": a directory that is no job's)
ResolveDir(id) ==
  CASE id \in JobIds -> id
    [] id = "j2/../j1" -> "j1"
    [] OTHER -> "outside"
OutsideDir == [exists |-> TRUE, files |-> {}, age |-> 0]
DirAt(id) ==
  IF ResolveDir(id) \in JobIds THEN downloadsDir[ResolveDir(id)] ELSE OutsideDir

\* a handler that turns away only registered jobs that are not completed
FileReplyUnregistered(map, id, dirExists, listing) ==
  IF id \in DOMAIN map /\ map[id].status # "completed"
    THEN [NotReady EXCEPT !.id = id]
  ELSE IF ~dirExists
    THEN [Uncaught EXCEPT !.id = id, !.read = ResolveDir(id)]
  ELSE IF FindMedia(listing) = Undefined
    THEN [NotFound EXCEPT !.id = id, !.read = ResolveDir(id)]
  ELSE [Reply("file", id, 200, "") EXCEPT
          !.read = ResolveDir(id),
          !.served = FindMedia(listing),
          !.fallback = sanitizeFilename(FindMedia(listing)),
          !.extended = encodeURIComponent(FindMedia(listing)),
          !.contentType = getContentType(FindMedia(listing))]

\* resp.read names the directory readdirSync was called on ("": none)
FileReply(map, id, dirExists, listing) ==
  IF id \notin DOMAIN map \/ map[id].status # "completed"
    THEN [NotReady EXCEPT !.id = id]
  ELSE IF ~dirExists
    THEN [Uncaught EXCEPT !.id = id, !.read = ResolveDir(id)]
  ELSE IF FindMedia(listing) = Undefined
    THEN [NotFound EXCEPT !.id = id, !.read = ResolveDir(id)]
  ELSE [Reply("file", id, 200, "") EXCEPT
          !.read = ResolveDir(id),
          !.served = FindMedia(listing),
          !.fallback = sanitizeFilename(FindMedia(listing)),
          !.extended = encodeURIComponent(FindMedia(listing)),
          !.contentType = getContentType(FindMedia(listing))]

\* an endpoint that marks the job once its file has been handed out
GetFileMarking(id) ==
  /\ \E listing \in Listings(DirAt(id).files) :
       resp' = FileReply(activeDownloads, id, DirAt(id).exists, listing)
  /\ activeDownloads' =
       IF resp'.code = 200
         THEN SetDownload(activeDownloads, id,
                          [activeDownloads[id] EXCEPT !.status = "served"])
         ELSE activeDownloads
  /\ UNCHANGED <<client, audioOnly, formatArg, ytdlp, ffmpeg, downloadedFile,
                 downloadsDir, launch, uuids, stderrLog>>

\* an id no job was created with has no directory under the downloads root
GetFile(id) ==
  /\ \E listing \in Listings(DirAt(id).files) :
       resp' = FileReply(activeDownloads, id, DirAt(id).exists, listing)
  /\ UNCHANGED <<activeDownloads, client, audioOnly, formatArg, ytdlp, ffmpeg, downloadedFile,
                 downloadsDir, launch, uuids, stderrLog>>

(***************************************************************************)
(* cleanupOldFiles and the clock                                           *)
(***************************************************************************)
\* now - stats.mtime.getTime() > maxAge
TooOld(dir) == dir.exists /\ dir.age > FILE_MAX_AGE_HOURS

cleanupOldFiles ==
  /\ downloadsDir' =
       [j \in JobIds |-> IF TooOld(downloadsDir[j]) THEN NoDir
                         ELSE downloadsDir[j]]
  /\ resp' = NoResp
  /\ UNCHANGED <<activeDownloads, client, audioOnly, formatArg, ytdlp, ffmpeg, downloadedFile,
                 launch, uuids, stderrLog>>

\* time passes; a directory that is already too old is not aged further
Tick ==
  /\ \E j \in JobIds : downloadsDir[j].exists /\ ~TooOld(downloadsDir[j])
  /\ downloadsDir' =
       [j \in JobIds |->
          IF downloadsDir[j].exists /\ ~TooOld(downloadsDir[j])
            THEN [downloadsDir[j] EXCEPT !.age = @ + TickHours]
            ELSE downloadsDir[j]]
  /\ resp' = NoResp
  /\ UNCHANGED <<activeDownloads, client, audioOnly, formatArg, ytdlp, ffmpeg, downloadedFile,
                 launch, uuids, stderrLog>>

Next ==
  \/ \E id \in JobIds, ao, mkdirOk, spawnOk \in BOOLEAN :
       StartJob(id, ao, mkdirOk, spawnOk)
  \/ \E id \in JobIds, chunk \in Chunks : StdoutData(id, chunk)
  \/ \E id \in JobIds, text \in StderrTexts : StderrData(id, text)
  \/ \E id \in JobIds, f \in EngineFiles : EngineWrite(id, f)
  \/ \E id \in JobIds, code \in ExitCodes, spawnOk \in BOOLEAN :
       YtdlpClose(id, code, spawnOk)
  \/ \E id \in JobIds : FfmpegWrite(id)
  \/ \E id \in JobIds, ffmpegCode \in ExitCodes, rmOk \in BOOLEAN :
       FfmpegClose(id, ffmpegCode, rmOk)
  \/ \E id \in Ids : GetProgress(id)
  \/ \E id \in Ids : GetFile(id)
  \/ cleanupOldFiles
  \/ Tick

Spec == Init /\ [][Next]_vars

(***************************************************************************)
(* The two sweepers at the resolution of the schedule.  An age is counted  *)
(* in whole hours, rounded up: age n stands for a modification time more   *)
(* than n - 1 and at most n hours ago.  The downloads root can hold        *)
(* directories of an earlier run of the server; the sweep at startup and   *)
(* every later sweep of the interval timer run before the next hour has    *)
(* passed.  cleanup.sh is run from outside the server, at any moment.      *)
(***************************************************************************)
Leftover(age) == [exists |-> TRUE, files |-> {}, age |-> age]

InitSweep ==
  /\ activeDownloads = << >>
  /\ audioOnly = [j \in JobIds |-> FALSE]
  /\ formatArg = [j \in JobIds |-> << >>]
  /\ ClientIdle
  /\ ytdlp = [j \in JobIds |-> NotSpawned]
  /\ ffmpeg = [j \in JobIds |-> NotSpawned]
  /\ downloadedFile = [j \in JobIds |-> Undefined]
  /\ downloadsDir \in
       [JobIds -> {NoDir} \cup {Leftover(age) : age \in 0..MaxLeftoverHours}]
  /\ launch = [j \in JobIds |-> "none"]
  /\ uuids = {j \in JobIds : ~downloadsDir[j].exists}
  /\ resp = NoResp
  /\ stderrLog = ""

\* an hour passes; the sweep that is due has run
HourPasses ==
  /\ \A j \in JobIds : ~TooOld(downloadsDir[j])
  /\ \E j \in JobIds : downloadsDir[j].exists
  /\ downloadsDir' =
       [j \in JobIds |->
          IF downloadsDir[j].exists
            THEN [downloadsDir[j] EXCEPT !.age = @ + CLEANUP_INTERVAL_HOURS]
            ELSE downloadsDir[j]]
  /\ resp' = NoResp
  /\ UNCHANGED <<activeDownloads, client, audioOnly, formatArg, ytdlp, ffmpeg, downloadedFile,
                 launch, uuids, stderrLog>>

\* find -mtime +MAX_AGE: the age in days, its fraction dropped, exceeds
\* MAX_AGE
ScriptTooOld(dir) == dir.exists /\ (dir.age - 1) \div 24 > MAX_AGE

\* one run of cleanup.sh (the entries of the downloads root)
CleanupScript ==
  /\ downloadsDir' =
       [j \in JobIds |-> IF ScriptTooOld(downloadsDir[j]) THEN NoDir
                         ELSE downloadsDir[j]]
  /\ resp' = NoResp
  /\ UNCHANGED <<activeDownloads, client, audioOnly, formatArg, ytdlp, ffmpeg, downloadedFile,
                 launch, uuids, stderrLog>>

NextSweep ==
  \/ \E id \in JobIds : StartJob(id, FALSE, TRUE, TRUE)
  \/ \E id \in JobIds : EngineWrite(id, <<"v", ".mp4">>)
  \/ HourPasses
  \/ cleanupOldFiles
  \/ CleanupScript

SpecSweep == InitSweep /\ [][NextSweep]_vars

(***************************************************************************)
(* Files named after a title: the engine's output template is              *)
(* %(title)s.%(ext)s, so any character can show up before the extension.   *)
(***************************************************************************)
HeaderFiles ==
  {stem \o <<".mp4">> :
     stem \in UNION {[1..n -> NameChars] : n \in 0..MaxNameLen}}

NextHeader ==
  \/ \E id \in JobIds : StartJob(id, FALSE, TRUE, TRUE)
  \/ \E id \in JobIds, f \in HeaderFiles : EngineWrite(id, f)
  \/ \E id \in JobIds : YtdlpClose(id, 0, TRUE)
  \/ \E id \in JobIds : GetFile(id)

SpecHeader == Init /\ [][NextHeader]_vars

\* The timers of the event loop fire, the clock advances, and a spawned
\* child eventually closes.
FairSpec ==
  /\ Spec
  /\ WF_vars(cleanupOldFiles)
  /\ WF_vars(Tick)
  /\ \A id \in JobIds :
       /\ WF_vars(\E code \in ExitCodes, spawnOk \in BOOLEAN :
                    YtdlpClose(id, code, spawnOk))
       /\ WF_vars(\E ffmpegCode \in ExitCodes, rmOk \in BOOLEAN :
                    FfmpegClose(id, ffmpegCode, rmOk))

(***************************************************************************)
(* Two jobs side by side: randomUUID has two ids to hand out, every start  *)
(* succeeds, and the engine's records carry a total.                       *)
(***************************************************************************)
InitTwo ==
  /\ activeDownloads = << >>
  /\ audioOnly = [j \in JobIds |-> FALSE]
  /\ formatArg = [j \in JobIds |-> << >>]
  /\ ClientIdle
  /\ ytdlp = [j \in JobIds |-> NotSpawned]
  /\ ffmpeg = [j \in JobIds |-> NotSpawned]
  /\ downloadedFile = [j \in JobIds |-> Undefined]
  /\ downloadsDir = [j \in JobIds |-> NoDir]
  /\ launch = [j \in JobIds |-> "none"]
  /\ uuids = JobIds
  /\ resp = NoResp
  /\ stderrLog = ""

TwoJobLines ==
  {l \in DownloadingLines :
     l.total_bytes = MaxBytes /\ l.downloaded_bytes > 0 /\ l.eta = "7"}
    \cup FinishedLines
TwoJobChunks == {<<l>> : l \in TwoJobLines}

NextTwo ==
  \/ \E id \in JobIds : StartJob(id, FALSE, TRUE, TRUE)
  \/ \E id \in JobIds, chunk \in TwoJobChunks : StdoutData(id, chunk)
  \/ \E id \in JobIds : EngineWrite(id, <<"v", ".webm">>)
  \/ \E id \in JobIds, code \in {0, 1} : YtdlpClose(id, code, TRUE)
  \/ \E id \in JobIds : FfmpegWrite(id)
  \/ \E id \in JobIds, ffmpegCode \in {0, 1} : FfmpegClose(id, ffmpegCode, TRUE)
  \/ \E id \in JobIds : GetProgress(id)

SpecTwo == InitTwo /\ [][NextTwo]_vars

(***************************************************************************)
(* Two jobs and file requests whose id is a job id or a path.              *)
(***************************************************************************)
NextPaths ==
  \/ \E id \in JobIds : StartJob(id, FALSE, TRUE, TRUE)
  \/ \E id \in JobIds, f \in EngineFiles : EngineWrite(id, f)
  \/ \E id \in JobIds, code \in {0, 1} : YtdlpClose(id, code, TRUE)
  \/ \E id \in RequestIds : GetFile(id)
  \/ cleanupOldFiles
  \/ Tick

SpecPaths == InitTwo /\ [][NextPaths]_vars

(***************************************************************************)
(* The browser client (App.tsx) with the server.  An interval is named by  *)
(* the job id its callback polls; progressIntervalRef holds the one the    *)
(* ref points to.  Requests in flight and pending timeouts are counted.    *)
(***************************************************************************)
MaxInFlight == 2

server == <<activeDownloads, audioOnly, formatArg, ytdlp, ffmpeg,
            downloadedFile, downloadsDir, launch, uuids, resp, stderrLog>>

\* clearInterval(progressIntervalRef.current) under `if (ref.current)`
ClearedIntervals == intervals \ {progressIntervalRef}

\* startDownload up to its await: clearProgress() and the POST; the
\* buttons are disabled while `loading`, that is while a POST is pending
startDownload(id) ==
  /\ id \in uuids
  /\ downloadPosts = {}
  /\ intervals' = ClearedIntervals
  /\ progressIntervalRef' = "null"
  /\ downloadPosts' = downloadPosts \cup {id}
  /\ UNCHANGED <<server, progressPolls, fileTimeouts, clearTimeouts,
                 fileRequests, observed>>

\* the server handles the POST
HandlePost(id) ==
  /\ id \in downloadPosts
  /\ StartJob(id, FALSE, TRUE, TRUE)

\* the POST's answer arrives (response.ok): pollProgress(data.downloadId)
pollProgress(id) ==
  /\ id \in downloadPosts
  /\ launch[id] = "started"
  /\ downloadPosts' = downloadPosts \ {id}
  /\ intervals' = ClearedIntervals \cup {id}
  /\ progressIntervalRef' = id
  /\ UNCHANGED <<server, progressPolls, fileTimeouts, clearTimeouts,
                 fileRequests, observed>>

\* the interval fires: its callback sends the status request and awaits
IntervalFires(id) ==
  /\ id \in intervals
  /\ progressPolls[id] < MaxInFlight
  /\ progressPolls' = [progressPolls EXCEPT ![id] = @ + 1]
  /\ UNCHANGED <<server, progressIntervalRef, intervals, downloadPosts,
                 fileTimeouts, clearTimeouts, fileRequests, observed>>

\* a status request is answered and the callback runs on with the answer
PollAnswered(id) ==
  /\ progressPolls[id] > 0
  /\ progressPolls' = [progressPolls EXCEPT ![id] = @ - 1]
  /\ LET data == ProgressReply(activeDownloads, id)
     IN  IF data.code # 200
           THEN UNCHANGED <<progressIntervalRef, intervals, fileTimeouts, observed>>
           ELSE /\ observed' = [observed EXCEPT ![id] = data.status]
                /\ IF data.status \in {"completed", "error"}
                     THEN /\ intervals' = ClearedIntervals
                          /\ progressIntervalRef' = "null"
                     ELSE UNCHANGED <<progressIntervalRef, intervals>>
                /\ fileTimeouts' =
                     IF data.status = "completed"
                       THEN [fileTimeouts EXCEPT ![id] = @ + 1]
                       ELSE fileTimeouts
  /\ UNCHANGED <<server, downloadPosts, clearTimeouts, fileRequests>>

\* the 1000 ms timeout: window.location.href = .../video/file/<id>
FileTimeoutFires(id) ==
  /\ fileTimeouts[id] > 0
  /\ fileTimeouts' = [fileTimeouts EXCEPT ![id] = @ - 1]
  /\ fileRequests' = [fileRequests EXCEPT ![id] = @ + 1]
  /\ clearTimeouts' = clearTimeouts + 1
  /\ UNCHANGED <<server, progressIntervalRef, intervals, downloadPosts,
                 progressPolls, observed>>

\* the 3000 ms timeout: clearProgress()
ClearTimeoutFires ==
  /\ clearTimeouts > 0
  /\ clearTimeouts' = clearTimeouts - 1
  /\ intervals' = ClearedIntervals
  /\ progressIntervalRef' = "null"
  /\ UNCHANGED <<server, downloadPosts, progressPolls, fileTimeouts,
                 fileRequests, observed>>

NextClient ==
  \/ \E id \in JobIds : startDownload(id)
  \/ \E id \in JobIds : HandlePost(id)
  \/ \E id \in JobIds : pollProgress(id)
  \/ \E id \in JobIds : IntervalFires(id)
  \/ \E id \in JobIds : PollAnswered(id)
  \/ \E id \in JobIds : FileTimeoutFires(id)
  \/ ClearTimeoutFires
  \/ \E id \in JobIds : EngineWrite(id, <<"v", ".webm">>)
  \/ \E id \in JobIds, code \in {0, 1} : YtdlpClose(id, code, TRUE)
  \/ \E id \in JobIds, ffmpegCode \in {0, 1} : FfmpegClose(id, ffmpegCode, TRUE)

SpecClient == InitTwo /\ [][NextClient]_vars

(***************************************************************************)
(* POST /api/video/info: the catalog                                       *)
(*                                                                         *)
(* A format of the engine's metadata carries format_id, vcodec, acodec,    *)
(* height, width, ext, format_note and tbr.  A missing string field is     *)
(* "undefined", a missing number is 0 (both are falsy in the handler's     *)
(* tests).  filesize and fps are copied through and left out.  A           *)
(* resolution label is a number with a suffix: [h |-> 1080, suffix |-> "p"]*)
(* is "1080p", and the label of an audio entry is "audio".                 *)
(***************************************************************************)
majorResolutions == {2160, 1440, 1080, 720, 480, 360, 240, 144}
\* .slice(0, 8) of the fallback pass and .slice(0, 3) of the audio entries
FallbackCap == 8
AudioCap == 3

RawFormat(id, vcodec, acodec, height, width, ext, note, tbr) ==
  [format_id |-> id, vcodec |-> vcodec, acodec |-> acodec, height |-> height,
   width |-> width, ext |-> ext, format_note |-> note, tbr |-> tbr]

\* formats the engine can list
FormatPool ==
  {RawFormat("137", "avc1", "none", 1080, 1920, "mp4", "1080p", 2),
   RawFormat("137n", "avc1", "undefined", 1080, 1920, "mp4", "1080p", 1),
   RawFormat("248", "vp9", "mp4a", 1080, 1920, "webm", "1080p", 1),
   RawFormat("22", "avc1", "mp4a", 720, 1280, "mp4", "720p", 1),
   RawFormat("v5", "vp9", "none", 500, 888, "webm", "undefined", 1),
   RawFormat("v10", "avc1", "mp4a", 1000, 1776, "mp4", "undefined", 0),
   RawFormat("136", "avc1", "none", 720, 1280, "mp4", "720p", 2),
   RawFormat("135", "avc1", "none", 480, 854, "mp4", "480p", 1),
   RawFormat("v5b", "avc1", "undefined", 500, 888, "mp4", "undefined", 2),
   RawFormat("140", "none", "mp4a", 0, 0, "m4a", "medium", 1),
   RawFormat("sb0", "none", "none", 720, 1280, "mhtml", "storyboard", 0)}

\* truthiness of a string field and of a numeric field
Truthy(x) == x \notin {"undefined", ""}
TruthyNum(n) == n # 0

\* f.acodec && f.acodec !== 'none': the value of the && expression
hasAudio(f) ==
  IF ~Truthy(f.acodec) THEN f.acodec
  ELSE IF f.acodec # "none" THEN "true" ELSE "false"

\* `${f.height}p`, 'audio', and parseInt of a label
HeightLabel(h) == [h |-> h, suffix |-> "p"]
AudioLabel == [h |-> 0, suffix |-> "audio"]
parseInt(label) == label.h

\* the object the three .map callbacks build
Entry(f, label) ==
  [format_id |-> f.format_id, resolution |-> label, ext |-> f.ext,
   vcodec |-> f.vcodec, acodec |-> f.acodec, tbr |-> f.tbr,
   format_note |-> f.format_note, hasAudio |-> hasAudio(f)]

Take(seq, n) == SubSeq(seq, 1, IF Len(seq) < n THEN Len(seq) ELSE n)

\* a strict filter without the ladder test
StrictTestAnyHeight(f) ==
  /\ Truthy(f.vcodec)
  /\ f.vcodec # "none"
  /\ TruthyNum(f.height)
  /\ f.format_note # "storyboard"
  /\ f.ext # "mhtml"

StrictTest(f) ==
  /\ Truthy(f.vcodec)
  /\ f.vcodec # "none"
  /\ TruthyNum(f.height)
  /\ f.height \in majorResolutions
  /\ f.format_note # "storyboard"
  /\ f.ext # "mhtml"
VideoEntry(f) == Entry(f, HeightLabel(f.height))
\* Array.prototype.map with the video entry callback
MapVideo(seq) == [i \in 1..Len(seq) |-> VideoEntry(seq[i])]
allVideoFormats(formats) == MapVideo(SelectSeq(formats, StrictTest))

\* the comparator of the sort inside a resolution bucket
IsH264(e) == e.vcodec = "avc1"
CompareInBucket(a, b) ==
  IF a.hasAudio # b.hasAudio
    THEN (IF Truthy(b.hasAudio) /\ b.hasAudio # "false" THEN 1 ELSE -1)
  ELSE IF IsH264(a) # IsH264(b)
    THEN (IF IsH264(b) THEN 1 ELSE -1)
  ELSE IF a.hasAudio # "true" /\ b.hasAudio # "true"
          /\ a.ext = "mp4" /\ b.ext # "mp4"
    THEN -1
  ELSE IF a.hasAudio # "true" /\ b.hasAudio # "true"
          /\ b.ext = "mp4" /\ a.ext # "mp4"
    THEN 1
  ELSE b.tbr - a.tbr

\* the comparator of the sort by resolution
CompareResolution(a, b) == parseInt(b.resolution) - parseInt(a.resolution)

Compare(how, a, b) ==
  IF how = "bucket" THEN CompareInBucket(a, b) ELSE CompareResolution(a, b)

\* Array.prototype.sort is stable: an insertion sort that puts x behind the
\* last element the comparator does not rank after it
Insert(how, sorted, x) ==
  LET fits(i) == /\ Compare(how, sorted[i], x) <= 0
                 /\ \A k \in (i + 1)..Len(sorted) : Compare(how, sorted[k], x) > 0
      at == IF \E i \in 1..Len(sorted) : fits(i)
              THEN CHOOSE i \in 1..Len(sorted) : fits(i)
              ELSE 0
  IN  SubSeq(sorted, 1, at) \o <<x>> \o SubSeq(sorted, at + 1, Len(sorted))

RECURSIVE Sort(_, _)
Sort(how, seq) ==
  IF seq = << >> THEN << >>
  ELSE Insert(how, Sort(how, SubSeq(seq, 1, Len(seq) - 1)), seq[Len(seq)])

\* the keys of formatsByResolution in insertion order
RECURSIVE BucketKeys(_)
BucketKeys(entries) ==
  IF entries = << >> THEN << >>
  ELSE LET before == BucketKeys(SubSeq(entries, 1, Len(entries) - 1))
           key == entries[Len(entries)].resolution
       IN  IF \E i \in 1..Len(before) : before[i] = key THEN before
           ELSE Append(before, key)

\* sortedFormats[0] of every bucket, then the sort by resolution
StrictPass(formats) ==
  LET all == allVideoFormats(formats)
      keys == BucketKeys(all)
      InBucket(key) == SelectSeq(all, LAMBDA e : e.resolution = key)
      Selected(key) == Sort("bucket", InBucket(key))[1]
  IN  Sort("resolution", [i \in 1..Len(keys) |-> Selected(keys[i])])

FallbackTest(f) ==
  /\ Truthy(f.vcodec)
  /\ f.vcodec # "none"
  /\ TruthyNum(f.width)
  /\ TruthyNum(f.height)
FallbackPass(formats) ==
  Take(MapVideo(SelectSeq(formats, FallbackTest)), FallbackCap)

videoFormats(formats) ==
  IF Len(StrictPass(formats)) = 0 THEN FallbackPass(formats)
  ELSE StrictPass(formats)

AudioTest(f) ==
  /\ Truthy(f.acodec)
  /\ f.acodec # "none"
  /\ (~Truthy(f.vcodec) \/ f.vcodec = "none")
  /\ f.format_note # "storyboard"
  /\ f.ext # "mhtml"
AudioEntry(f) == Entry(f, AudioLabel)
audioFormats(formats) ==
  Take([i \in 1..Len(SelectSeq(formats, AudioTest)) |->
          AudioEntry(SelectSeq(formats, AudioTest)[i])], AudioCap)

\* what the engine's stdout amounts to when it closes: metadata with a
\* formats list, JSON without one, or text JSON.parse rejects
\* (a metadata document lists each format once)
FormatLists ==
  {l \in UNION {[1..n -> FormatPool] : n \in 0..MaxFormats} :
     \A i, k \in 1..Len(l) : i # k => l[i] # l[k]}
Outputs ==
  [kind : {"json"}, formats : FormatLists]
    \cup [kind : {"noformats", "badjson"}, formats : {<< >>}]

InvalidUrl == Reply("info", "", 400, "Invalid URL")
ParseFailed == Reply("info", "", 500, "Failed to parse video info")

\* a handler that parses the output before it looks at the exit code
InfoReplyParseFirst(code, output) ==
  IF output.kind # "json" THEN ParseFailed
  ELSE IF code # 0 THEN InvalidUrl
  ELSE [Reply("info", "", 200, "") EXCEPT
          !.formats = videoFormats(output.formats)
                        \o audioFormats(output.formats)]

\* the 'close' handler of the info request
InfoReply(code, output) ==
  IF code # 0 THEN InvalidUrl
  ELSE IF output.kind # "json" THEN ParseFailed
  ELSE [Reply("info", "", 200, "") EXCEPT
          !.formats = videoFormats(output.formats)
                        \o audioFormats(output.formats)]

GetInfo(code, output) ==
  /\ resp' = InfoReply(code, output)
  /\ UNCHANGED <<activeDownloads, client, audioOnly, formatArg, ytdlp, ffmpeg, downloadedFile,
                 downloadsDir, launch, uuids, stderrLog>>

NextCatalog ==
  \/ \E code \in ExitCodes, output \in Outputs : GetInfo(code, output)
  \/ \E id \in JobIds, ao \in BOOLEAN : StartJob(id, ao, TRUE, TRUE)
  \/ \E id \in Ids : GetProgress(id)

SpecCatalog == Init /\ [][NextCatalog]_vars

(***************************************************************************)
(* Two starts whose requests carry any of the format ids.                  *)
(***************************************************************************)
NextFormat ==
  \/ \E id \in JobIds, ao \in BOOLEAN, format_id \in FormatIds :
       StartVariant(id, ao, format_id, TRUE, TRUE)
  \/ \E id \in Ids : GetProgress(id)

SpecFormat == InitTwo /\ [][NextFormat]_vars

(***************************************************************************)
(* One info request followed from the engine's output to the answer: the   *)
(* formats the engine listed are kept (resp.listed) next to the answer the *)
(* 'close' handler gives for them.                                         *)
(***************************************************************************)
MaxListed == 9

\* a long listing of formats outside the resolution ladder, in ascending
\* height order
OffLadderFormat(i) ==
  RawFormat(ToString(i), "vp9", "none", 500 + i, 888, "webm", "undefined", 1)
LongLists == {[i \in 1..n |-> OffLadderFormat(i)] : n \in (MaxFormats + 1)..MaxListed}

\* a long listing that alternates ladder video formats (ascending) with
\* audio-only formats; its third entry is a storyboard that carries codecs
Ladder == <<144, 240, 360, 480, 720, 1080, 1440, 2160>>
MixedFormat(i) ==
  IF i % 2 = 0
    THEN RawFormat(ToString(100 + i), "none", "mp4a", 0, 0, "m4a", "medium", i)
  ELSE IF i = 3
    THEN RawFormat("sb3", "avc1", "mp4a", 240, 1280, "mhtml", "storyboard", i)
    ELSE RawFormat(ToString(200 + i), "avc1", "mp4a", Ladder[(i + 1) \div 2],
                   1280, "mp4", "undefined", i)
MixedLists == {[i \in 1..n |-> MixedFormat(i)] : n \in (MaxFormats + 1)..MaxListed}

ListedInputs == FormatLists \cup LongLists \cup MixedLists

\* `output` holds the engine's whole metadata document
InitListing ==
  /\ activeDownloads = << >>
  /\ audioOnly = [j \in JobIds |-> FALSE]
  /\ formatArg = [j \in JobIds |-> << >>]
  /\ ClientIdle
  /\ ytdlp = [j \in JobIds |-> NotSpawned]
  /\ ffmpeg = [j \in JobIds |-> NotSpawned]
  /\ downloadedFile = [j \in JobIds |-> Undefined]
  /\ downloadsDir = [j \in JobIds |-> NoDir]
  /\ launch = [j \in JobIds |-> "none"]
  /\ uuids = {"j1"}
  /\ stderrLog = ""
  /\ \E l \in ListedInputs : resp = [NoResp EXCEPT !.listed = l]

\* ytdlp.on('close') of the info request
InfoClose(code) ==
  /\ resp.op = "none"
  /\ resp' = [InfoReply(code, [kind |-> "json", formats |-> resp.listed])
                EXCEPT !.listed = resp.listed]
  /\ UNCHANGED <<activeDownloads, client, audioOnly, formatArg, ytdlp, ffmpeg, downloadedFile,
                 downloadsDir, launch, uuids, stderrLog>>

NextListing == \E code \in ExitCodes : InfoClose(code)

SpecListing == InitListing /\ [][NextListing]_vars

(***************************************************************************)
(* Properties                                                              *)
(***************************************************************************)
StatusOf(id) == activeDownloads[id].status

\* the steps of the paths Downloading->Completed, Downloading->Error and
\* Downloading->Converting->Completed
ValidSteps ==
  {<<"downloading", "completed">>, <<"downloading", "error">>,
   <<"downloading", "converting">>, <<"converting", "completed">>}

\* C1: a job's status only ever moves along Downloading->Completed,
\* Downloading->Error or Downloading->Converting->Completed, so a poller
\* observes a prefix of one of these paths; in particular the status never
\* leaves Completed.
C1_StatusFollowsValidPaths ==
  [][\A id \in Registered :
       /\ id \in DOMAIN activeDownloads'
       /\ \/ activeDownloads'[id].status = StatusOf(id)
          \/ <<StatusOf(id), activeDownloads'[id].status>> \in ValidSteps]_vars

\* C2: while a job's status is Downloading its progress never decreases.
C2_ProgressNeverDecreases ==
  [][\A id \in Registered :
       (StatusOf(id) = "downloading" /\ activeDownloads'[id].status = "downloading")
         => activeDownloads'[id].progress >= activeDownloads[id].progress]_vars

\* C3: whenever a job's status is Completed its progress is exactly 100.
C3_CompletedHasProgress100 ==
  \A id \in Registered :
    StatusOf(id) = "completed" => activeDownloads[id].progress = 100

\* C4: the file endpoint's answer to an id that was never created differs
\* from its answer to a registered job whose status is not Completed.
C4_RefusalsAreDistinct ==
  \A id \in Registered :
    (resp.op = "file" /\ resp.id \notin Registered /\ StatusOf(id) # "completed")
      => resp.error #
           FileReply(activeDownloads, id, downloadsDir[id].exists, << >>).error

\* C5: a file request for a Completed job whose output directory has been
\* removed by the sweeper is answered NotFound, not by an uncaught exception.
C5_SweptDirectoryIsNotFound ==
  (/\ resp.op = "file"
   /\ resp.id \in Registered
   /\ StatusOf(resp.id) = "completed"
   /\ ~downloadsDir[resp.id].exists)
    => resp = [NotFound EXCEPT !.id = resp.id]

\* C6: after a start that failed (the directory could not be created or the
\* engine could not be spawned) the registry has no entry for the job id.
C6_FailedStartRegistersNothing ==
  \A id \in JobIds :
    launch[id] \in {"mkdirFailed", "spawnFailed"} => id \notin Registered

\* C7: the job is registered (Downloading, progress 0) before the engine is
\* spawned and before the id is returned, so a poll for a returned id is
\* never answered not-found.
C7_ReturnedIdIsRegistered ==
  /\ \A id \in JobIds :
       (launch[id] \in {"started", "spawnFailed"} \/ ytdlp[id].state # "none")
         => id \in Registered
  /\ (resp.op = "download" /\ resp.code = 200)
       => /\ resp.id \in Registered
          /\ activeDownloads[resp.id] = NewDownload
  /\ (resp.op = "progress" /\ resp.id \in JobIds /\ launch[resp.id] = "started")
       => resp.code = 200

C7_Witness ==
  /\ resp.op = "progress"
  /\ resp.id \in JobIds
  /\ launch[resp.id] = "started"
  /\ resp.code = 200
  /\ resp.status = "downloading"

\* C8: after the engine exited with a non-zero code the job's status is Error
\* and its error detail is 'Download failed', whatever the engine wrote.
C8_NonZeroExitIsGenericError ==
  \A id \in JobIds :
    (ytdlp[id].state = "closed" /\ ytdlp[id].code # 0)
      => /\ StatusOf(id) = "error"
         /\ activeDownloads[id].error = "Download failed"

C8_Witness ==
  \E id \in JobIds :
    /\ ytdlp[id].state = "closed"
    /\ ytdlp[id].code # 0
    /\ stderrLog # ""

\* C9: once a job's status is Error no step changes it, and no step starts
\* or changes a subprocess of the job.
C9_ErrorIsAbsorbing ==
  [][\A id \in Registered :
       StatusOf(id) = "error"
         => /\ id \in DOMAIN activeDownloads'
            /\ activeDownloads'[id].status = "error"
            /\ ytdlp'[id] = ytdlp[id]
            /\ ffmpeg'[id] = ffmpeg[id]]_vars

C9_Witness ==
  /\ resp.op = "file"
  /\ resp.id \in Registered
  /\ StatusOf(resp.id) = "error"
  /\ downloadsDir[resp.id].files # {}

\* C10: a job whose status is Converting is a video job whose engine exited
\* with code 0 and whose located file ends in .webm; an audio-only job is
\* never Converting.
C10_ConvertingOnlyForVideoWebm ==
  \A id \in Registered :
    StatusOf(id) = "converting"
      => /\ ytdlp[id] = Closed(0)
         /\ ~audioOnly[id]
         /\ EndsWithWebm(downloadedFile[id])

C10_Witness ==
  \E id \in Registered :
    /\ StatusOf(id) = "converting"
    /\ ffmpeg[id].state = "running"

\* the job entered Converting: its engine exited with code 0 and the located
\* file of a video job ends in .webm
EnteredConverting(id) ==
  /\ ytdlp[id] = Closed(0)
  /\ ~audioOnly[id]
  /\ EndsWithWebm(downloadedFile[id])

\* the step is the transcoder's exit of job id
FfmpegExits(id) == ffmpeg[id].state = "running" /\ ffmpeg'[id].state = "closed"

\* C11: a job that entered Converting is never Error; the step in which its
\* transcoder exits with a non-zero code makes it Completed with the original
\* file name and leaves the output directory, the original included, as it
\* was.
C11_FailedConversionKeepsOriginal ==
  [][\A id \in Registered :
       /\ EnteredConverting(id) => StatusOf(id) \in {"converting", "completed"}
       /\ (FfmpegExits(id) /\ ffmpeg'[id].code # 0)
            => /\ activeDownloads'[id].status = "completed"
               /\ activeDownloads'[id].fileName = downloadedFile[id]
               /\ downloadsDir'[id] = downloadsDir[id]]_vars

C11_Witness ==
  \E id \in Registered :
    /\ ffmpeg[id].state = "closed"
    /\ ffmpeg[id].code # 0
    /\ StatusOf(id) = "completed"
    /\ activeDownloads[id].fileName = downloadedFile[id]
    /\ downloadsDir[id].exists
    /\ downloadedFile[id] \in downloadsDir[id].files


\* C12: the step in which the transcoder exits with code 0 makes the job
\* Completed with the converted file's name, and the original file is no
\* longer in the job's output directory.
C12_SuccessfulConversionReplacesOriginal ==
  [][\A id \in Registered :
       (FfmpegExits(id) /\ ffmpeg'[id].code = 0)
         => /\ activeDownloads'[id].status = "completed"
            /\ activeDownloads'[id].fileName = mp4FileName(id)
            /\ downloadedFile[id] \notin downloadsDir'[id].files]_vars

\* a video job that is Completed after its engine exited with code 0 and the
\* 'close' handler located a media file
VideoJobDone(id) ==
  /\ ~audioOnly[id]
  /\ ytdlp[id] = Closed(0)
  /\ downloadedFile[id] # Undefined
  /\ StatusOf(id) = "completed"

C14_AudioOutputEndsInMp3 ==
  \A id \in Registered :
    (/\ audioOnly[id]
     /\ StatusOf(id) = "completed"
     /\ ytdlp[id] = Closed(0)
     /\ \E f \in downloadsDir[id].files : Last(f) = ".mp3")
      => /\ activeDownloads[id].fileName # Undefined
         /\ Last(activeDownloads[id].fileName) = ".mp3"


\* the step is a callback of job id: a stdout chunk, the engine's exit or the
\* transcoder's exit
EventOf(id) ==
  \/ \E chunk \in Chunks : StdoutData(id, chunk)
  \/ \E code \in ExitCodes, spawnOk \in BOOLEAN : YtdlpClose(id, code, spawnOk)
  \/ \E ffmpegCode \in ExitCodes, rmOk \in BOOLEAN :
       FfmpegClose(id, ffmpegCode, rmOk)

\* C15: no callback of a job B changes a field of another job A's record; A's
\* record changes only in callbacks of A, and a status poll for A returns
\* the fields of A's record.
C15_JobsAreIsolated ==
  [][\A a \in Registered :
       /\ \A b \in JobIds \ {a} :
            EventOf(b) => activeDownloads'[a] = activeDownloads[a]
       /\ activeDownloads'[a] # activeDownloads[a] => EventOf(a)
       /\ (resp'.op = "progress" /\ resp'.id = a)
            => /\ resp'.status = activeDownloads[a].status
               /\ resp'.progress = activeDownloads[a].progress
               /\ resp'.eta = activeDownloads[a].eta
               /\ resp'.fileName = activeDownloads[a].fileName]_vars

C15_Witness ==
  /\ Registered = JobIds
  /\ \A id \in JobIds : ytdlp[id].state = "running"
  /\ resp.op = "progress"
  /\ resp.id = "j1"
  /\ resp.progress = activeDownloads["j1"].progress
  /\ resp.progress # activeDownloads["j2"].progress
  /\ activeDownloads["j2"].progress # 0


\* the video entries of a catalog, in the order of the reply
VideoEntries(formats) == SelectSeq(formats, LAMBDA e : e.resolution.suffix = "p")

\* C16: in every catalog the info endpoint returns, from the strict pass or
\* from the fallback pass, the video entries are in strictly descending
\* resolution order (so no two of them have the same resolution label).
C16_CatalogStrictlyDescending ==
  (resp.op = "info" /\ resp.code = 200)
    => LET v == VideoEntries(resp.formats)
       IN  \A i \in 1..(Len(v) - 1) :
             parseInt(v[i].resolution) > parseInt(v[i + 1].resolution)


\* outputs that carry no format: JSON without a formats list, text that is
\* not JSON, and metadata with an empty list
BareOutputs ==
  {[kind |-> k, formats |-> << >>] : k \in {"json", "noformats", "badjson"}}

\* C17: a catalog request whose engine exits with a non-zero code (or by a
\* signal) is answered 400 {"error": "Invalid URL"}; one whose engine exits
\* with code 0 but whose output is not JSON or has no formats list is answered
\* 500 with the fixed message; no catalog request registers a job.
C17_InfoFailuresAreClassified ==
  [][resp'.op = "info"
       => /\ activeDownloads' = activeDownloads
          /\ uuids' = uuids
          /\ resp'.code # 200
               => (resp' \in {InvalidUrl, ParseFailed} /\ resp'.formats = << >>)
          /\ \A code \in ExitCodes, output \in BareOutputs :
               GetInfo(code, output)
                 => /\ code # 0
                         => (resp'.code = 400 /\ resp'.error = "Invalid URL")
                    /\ (code = 0 /\ output.kind # "json")
                         => /\ resp'.code = 500
                            /\ resp'.error = "Failed to parse video info"]_vars

C17_Witness ==
  /\ resp.op = "info"
  /\ resp.code = 400
  /\ resp.error = "Invalid URL"
  /\ Registered # {}


\* C18: the registry does not keep a record forever: every registered job's
\* record is eventually removed from it.
C18_OldRecordsAreRemoved ==
  \A id \in JobIds : (id \in Registered) ~> (id \notin Registered)


\* characters of the ASCII range that are not white space
AsciiVisible ==
  {"a", "v", "_", ".", "-", "%", "'", "/"} \cup ExtTokens
    \cup {HexDigits[i] : i \in 1..16}

\* C19: for every served file the header's fallback name holds only ASCII
\* characters and no white space, its filename* form is ASCII too, and
\* percent-decoding the filename* form gives back the served file's name.
C19_DispositionRoundTrips ==
  (resp.op = "file" /\ resp.code = 200)
    => /\ \A i \in 1..Len(resp.fallback) : resp.fallback[i] \in AsciiVisible
       /\ \A i \in 1..Len(resp.extended) : resp.extended[i] \in AsciiVisible
       /\ PercentDecode(resp.extended) = resp.served

C19_Witness ==
  /\ resp.op = "file"
  /\ resp.code = 200
  /\ \E i \in 1..Len(resp.served) : resp.served[i] = "U+65E5"
  /\ \E i \in 1..Len(resp.served) : resp.served[i] = "%"
  /\ resp.fallback = <<"_", ".mp4">>


\* C20: a sweep, of the server or of cleanup.sh, deletes every entry of the
\* downloads root that is more than 24 hours old and no other; with the
\* hourly schedule the directory of a job is never found more than 25 hours
\* after its last modification.
C20_SweepDeletesExactlyTheOld ==
  [][/\ (cleanupOldFiles \/ CleanupScript)
          => \A j \in JobIds :
               downloadsDir[j].exists
                 => (downloadsDir'[j].exists
                       <=> downloadsDir[j].age <= FILE_MAX_AGE_HOURS)
     /\ \A j \in JobIds :
          (launch[j] = "started" /\ downloadsDir[j].exists)
            => downloadsDir[j].age
                 <= FILE_MAX_AGE_HOURS + CLEANUP_INTERVAL_HOURS]_vars


\* C21: a 'finished' progress record leaves the status as it is: a job's
\* status changes away from Downloading only in the step in which its engine
\* closes.
C21_StatusLeavesDownloadingOnlyAtExit ==
  [][\A id \in Registered :
       (StatusOf(id) = "downloading"
          /\ activeDownloads'[id].status # "downloading")
         => (ytdlp[id].state = "running" /\ ytdlp'[id].state = "closed")]_vars

\* the 'downloading' records, each alone in a chunk
DownloadingChunks == {<<l>> : l \in DownloadingLines}

\* C22: a 'downloading' record in which downloaded_bytes or total_bytes is
\* missing or not positive leaves progress at its previous value and updates
\* eta; when both are positive progress becomes round(downloaded/total*100).
C22_UnknownBytesKeepProgress ==
  [][\A id \in Registered, chunk \in DownloadingChunks :
       StdoutData(id, chunk)
         => LET d == chunk[1].downloaded_bytes
                t == chunk[1].total_bytes
            IN  /\ activeDownloads'[id].eta = chunk[1].eta
                /\ (d > 0 /\ t > 0)
                     => activeDownloads'[id].progress = (200 * d + t) \div (2 * t)
                /\ ~(d > 0 /\ t > 0)
                     => activeDownloads'[id].progress
                          = activeDownloads[id].progress]_vars

\* C23: in every reachable state a job's progress is an integer in 0..100.
C23_ProgressWithinBounds ==
  \A id \in Registered : activeDownloads[id].progress \in 0..100


\* C24: when the engine exits with code 0 and the job's directory holds a
\* file with an accepted extension, the exit handler locates such a file and
\* (when the job is Completed by that step) records it as fileName, for
\* every extension the result endpoint accepts.
C24_ExitHandlerLocatesAcceptedFiles ==
  [][\A id \in Registered :
       (/\ ytdlp[id].state = "running"
        /\ ytdlp'[id] = Closed(0)
        /\ downloadsDir[id].exists
        /\ \E f \in downloadsDir[id].files : IsMediaFile(f))
         => /\ downloadedFile'[id] \in downloadsDir[id].files
            /\ IsMediaFile(downloadedFile'[id])
            /\ activeDownloads'[id].status = "completed"
                 => activeDownloads'[id].fileName = downloadedFile'[id]]_vars

\* C25: the result endpoint streams a file only for a job whose engine has
\* exited with code 0 and whose transcoder, if one was started, has finished.
C25_StreamsOnlyAfterExit ==
  (resp.op = "file" /\ resp.code = 200)
    => /\ ytdlp[resp.id] = Closed(0)
       /\ ffmpeg[resp.id].state # "running"

\* C26: the file the result endpoint streams for a Completed job is the one
\* the job's fileName names (here: whenever fileName names a file of the
\* job's directory at all).
C26_StreamedFileIsTheReportedOne ==
  (/\ resp.op = "file"
   /\ resp.code = 200
   /\ activeDownloads[resp.id].fileName \in downloadsDir[resp.id].files)
    => resp.served = activeDownloads[resp.id].fileName


\* What the handler sees of a record that arrives in two data events: each
\* event is split on '\n' by itself and nothing is kept between events, so
\* the first piece starts with '{' and fails JSON.parse and the second piece
\* does not start with '{'.
HeadFragment(line) == [line EXCEPT !.kind = "badjson"]
TailFragment(line) == [line EXCEPT !.kind = "text"]
SplitRecord(line) == <<(<<HeadFragment(line)>>), (<<TailFragment(line)>>)>>

\* the handler run once per data event, in the order of the events
RECURSIVE ApplyEvents(_, _)
ApplyEvents(download, events) ==
  IF events = << >> THEN download
  ELSE ApplyEvents(ApplyLines(download, Head(events)), Tail(events))

\* C27: the effect of the engine's output on the job record does not depend
\* on how it is split into data events: a progress record delivered in two
\* events has the effect of the record delivered whole.
C27_SplitRecordAppliedOnce ==
  \A id \in Registered :
    ytdlp[id].state = "running"
      => \A line \in DownloadingLines \cup FinishedLines :
           ApplyEvents(activeDownloads[id], SplitRecord(line))
             = ApplyEvents(activeDownloads[id], <<(<<line>>)>>)


\* data events made of lines that are not a recognised progress record:
\* no leading '{', invalid JSON, or a status tag other than 'downloading'
\* and 'finished'
OtherChunks == UNION {[1..n -> OtherLines] : n \in 1..MaxLines}

\* C28: output that is not a recognised progress record changes nothing on
\* the job: a stdout event of such lines and every stderr event leave the
\* job's status, progress, eta, fileName and error as they were.
C28_UnrecognisedOutputIsIgnored ==
  /\ [](\A id \in Registered, chunk \in OtherChunks :
          ApplyLines(activeDownloads[id], chunk) = activeDownloads[id])
  /\ [][\A id \in Registered, text \in StderrTexts :
          StderrData(id, text) => activeDownloads' = activeDownloads]_vars

\* stderr output has arrived for a job that is past its first progress
\* record and still downloading
C28_Witness ==
  \E id \in Registered :
    /\ stderrLog # ""
    /\ ytdlp[id].state = "running"
    /\ StatusOf(id) = "downloading"
    /\ activeDownloads[id].progress > 0


\* C29: the status query and the result endpoint are read-only: a step that
\* answers either request leaves the whole job registry unchanged.
C29_QueriesAreReadOnly ==
  [][resp'.op \in {"progress", "file"}
       => /\ activeDownloads' = activeDownloads
          /\ UNCHANGED <<ytdlp, ffmpeg, downloadsDir>>]_vars

\* the result endpoint has just streamed a file of a registered job
C29_Witness ==
  /\ resp.op = "file"
  /\ resp.code = 200
  /\ resp.id \in Registered
  /\ StatusOf(resp.id) = "completed"


\* the job is registered and Completed or Error
Terminal(id) == id \in Registered /\ StatusOf(id) \in {"completed", "error"}

\* C30: under fairness (every spawned engine and every spawned transcoder
\* delivers its exit event) every registered job eventually reaches
\* Completed or Error, and a job that has reached one of them stays in a
\* terminal state; none stays Downloading or Converting forever.
C30_EveryJobTerminates ==
  /\ [][\A id \in JobIds : Terminal(id) => Terminal(id)']_vars
  /\ \A id \in JobIds : [](id \in Registered => <>Terminal(id))


\* the entries of the strict filter that share a resolution label
SameBucket(a, b) == a.resolution = b.resolution

\* C31: within a resolution bucket the comparator never ranks each of two
\* entries before the other (also for a missing audio codec against the
\* audio codec 'none'), and the representative the strict pass returns for
\* the bucket is ranked after no entry of the bucket.
C31_BucketChoiceIsConsistent ==
  (resp.op = "info" /\ resp.code = 200)
    => LET all == allVideoFormats(resp.listed)
           v == VideoEntries(resp.formats)
       IN  /\ \A i, k \in 1..Len(all) :
                SameBucket(all[i], all[k])
                  => ~(/\ CompareInBucket(all[i], all[k]) < 0
                       /\ CompareInBucket(all[k], all[i]) < 0)
           /\ Len(all) > 0
                => \A n \in 1..Len(v), i \in 1..Len(all) :
                     SameBucket(v[n], all[i])
                       => CompareInBucket(v[n], all[i]) <= 0


\* C32: the fallback pass is used exactly when no listed format passes the
\* strict filter; its result has at most 8 entries, as many as pass the
\* loosened filter up to that cap, each made from a format with a video
\* codec and known width and height, in descending resolution order.
C32_FallbackPassIsCappedAndSorted ==
  (resp.op = "info" /\ resp.code = 200)
    => LET listed == resp.listed
           v == VideoEntries(resp.formats)
           eligible == SelectSeq(listed, FallbackTest)
       IN  IF \E i \in 1..Len(listed) : StrictTest(listed[i])
             THEN \A n \in 1..Len(v) : parseInt(v[n].resolution) \in majorResolutions
             ELSE /\ Len(v) <= FallbackCap
                  /\ Len(v) = IF Len(eligible) < FallbackCap
                                THEN Len(eligible) ELSE FallbackCap
                  /\ \A n \in 1..Len(v) :
                       \E i \in 1..Len(eligible) : v[n] = VideoEntry(eligible[i])
                  /\ \A n \in 1..(Len(v) - 1) :
                       parseInt(v[n].resolution) >= parseInt(v[n + 1].resolution)


\* the audio-only entries of a catalog, and where a format id was listed
AudioEntries(formats) == SelectSeq(formats, LAMBDA e : e.resolution.suffix = "audio")
ListedAt(listed, id) == CHOOSE i \in 1..Len(listed) : listed[i].format_id = id

\* C33: in a catalog of the strict pass every video entry has a ladder
\* height and none is a storyboard or an mhtml entry; in every catalog the
\* video entries come before the audio-only entries, there are at most 3
\* audio-only entries, each has an audio codec and no video codec, and they
\* are in the order the engine listed them.
C33_CatalogShape ==
  (resp.op = "info" /\ resp.code = 200)
    => LET listed == resp.listed
           f == resp.formats
           v == VideoEntries(f)
           a == AudioEntries(f)
       IN  /\ (\E i \in 1..Len(listed) : StrictTest(listed[i]))
                => \A n \in 1..Len(v) :
                     /\ parseInt(v[n].resolution)
                          \in {2160, 1440, 1080, 720, 480, 360, 240, 144}
                     /\ v[n].format_note # "storyboard"
                     /\ v[n].ext # "mhtml"
           /\ f = v \o a
           /\ Len(a) <= 3
           /\ \A n \in 1..Len(a) :
                /\ a[n].acodec \notin {"none", "undefined"}
                /\ a[n].vcodec \in {"none", "undefined"}
                /\ a[n].format_note # "storyboard"
                /\ \E i \in 1..Len(listed) : listed[i].format_id = a[n].format_id
           /\ \A n \in 1..(Len(a) - 1) :
                ListedAt(listed, a[n].format_id) < ListedAt(listed, a[n + 1].format_id)

\* a strict-pass catalog with several video entries whose audio-only
\* entries were cut to three
C33_Witness ==
  /\ resp.op = "info"
  /\ resp.code = 200
  /\ Len(SelectSeq(resp.listed, AudioTest)) > 3
  /\ Len(AudioEntries(resp.formats)) = 3
  /\ Len(VideoEntries(resp.formats)) > 1
  /\ \E i \in 1..Len(resp.listed) : StrictTest(resp.listed[i])


\* a video job whose engine was spawned
VideoJobStarted(id) == launch[id] = "started" /\ ~audioOnly[id]

\* C34: the selection expression of a video job has exactly four
\* alternatives, in this order: the requested format plus best m4a audio,
\* the requested format plus best audio, best video up to a height plus best
\* audio, best pre-merged stream up to that height; no unrestricted 'best'
\* stands before the last of them.
C34_FourAlternativesInOrder ==
  \A id \in JobIds :
    VideoJobStarted(id)
      => LET f == formatArg[id]
         IN  /\ Len(f) = 4
             /\ f[1].audio = "bestaudio[ext=m4a]"
             /\ f[2] = Alternative(f[1].take, 0, "bestaudio")
             /\ f[3].take = <<"bestvideo">> /\ f[3].audio = "bestaudio"
             /\ f[3].height > 0
             /\ f[4] = Alternative(<<"best">>, f[3].height, "")
             /\ \A k \in 1..3 : ~(f[k].take = <<"best">> /\ f[k].height = 0)

\* the resolution the catalog shows for a format id
VariantHeight(format_id) ==
  CASE format_id = <<"1", "3", "7">> -> 1080
    [] format_id = <<"2", "2">> -> 720
    [] format_id = <<"3", "1", "3">> -> 2160
    [] format_id = <<"1", "8">> -> 360
    [] format_id = <<"1", "3", "5">> -> 480
    [] format_id = <<"h", "l", "s", "-", "1", "0", "8", "0">> -> 1080

\* C35: the height bound of the alternatives that carry one equals the
\* resolution of the variant the request selected.
C35_HeightBoundIsTheVariants ==
  \A id \in JobIds :
    VideoJobStarted(id)
      => \A k \in 1..Len(formatArg[id]) :
           formatArg[id][k].height # 0
             => formatArg[id][k].height = VariantHeight(formatArg[id][1].take)


\* the media type the table gives for an extension of the accepted set
TableType ==
  [e \in ServedExts |->
     CASE e = ".mp4" -> "video/mp4"
       [] e = ".m4a" -> "audio/mp4"
       [] e = ".webm" -> "video/webm"
       [] e = ".mkv" -> "video/x-matroska"
       [] e = ".mp3" -> "audio/mpeg"
       [] e = ".opus" -> "audio/opus"
       [] e = ".wav" -> "audio/wav"
       [] e = ".aac" -> "audio/aac"]
\* names with an extension outside the table
UnknownNames == {<<"v", ".txt">>, <<"v", ".part">>, <<"v", ".ytdl">>, <<"v">>}

\* C36: the Content-Type of a served file is the table's type for the
\* served file's extension, and a name with any other extension gets
\* application/octet-stream.
C36_ContentTypeFollowsExtension ==
  /\ (resp.op = "file" /\ resp.code = 200)
       => /\ Last(resp.served) \in ServedExts
          /\ resp.contentType = TableType[Last(resp.served)]
  /\ \A f \in UnknownNames : getContentType(f) = "application/octet-stream"

\* an audio file has been served as audio/mpeg
C36_Witness ==
  /\ resp.op = "file"
  /\ resp.code = 200
  /\ Last(resp.served) = ".mp3"
  /\ resp.contentType = "audio/mpeg"


\* C37: the result endpoint reads a directory only for a registered job id
\* and then the directory of that job: an id that is not registered (a
\* path with separators or '..' included) gets 404 with no directory read,
\* and a file streamed for job A comes from A's directory.
C37_ReadsOnlyTheJobsDirectory ==
  resp.op = "file"
    => /\ resp.id \notin Registered => (resp.read = "" /\ resp.code = 404)
       /\ resp.read # "" => (resp.id \in Registered /\ resp.read = resp.id)
       /\ resp.code = 200
            => /\ resp.read = resp.id
               /\ resp.served \in downloadsDir[resp.id].files

\* a path that resolves to the directory of a completed job with a file in
\* it has been turned away
C37_Witness ==
  /\ resp.op = "file"
  /\ resp.id = "j2/../j1"
  /\ resp.code = 404
  /\ "j1" \in Registered
  /\ StatusOf("j1") = "completed"
  /\ \E f \in downloadsDir["j1"].files : IsMediaFile(f)


\* C38: the client requests a job's file at most once and only after a poll
\* has observed completed, at most one interval is active, an interval does
\* not survive the poll that observes completed or error for its job, and
\* an interval is stopped only by such a poll or by the start of another
\* download.
C38_PollerStopsAndFetchesOnce ==
  /\ [](\A id \in JobIds :
          /\ fileRequests[id] <= 1
          /\ (fileRequests[id] > 0 \/ fileTimeouts[id] > 0)
               => observed[id] = "completed"
          /\ observed[id] \in {"completed", "error"} => id \notin intervals)
  /\ [](Cardinality(intervals) <= 1)
  /\ [][\A id \in intervals :
          id \notin intervals'
            => \/ observed'[id] \in {"completed", "error"}
               \/ downloadPosts' # downloadPosts]_vars

====
